---- MODULE Spec2Model ----
(***************************************************************************)
(* The unit-of-work transaction manager (app/core/decorators/              *)
(* unit_of_work.py) and the operations it wraps: the role-permission       *)
(* assignment (app/api/v1/permissions.py, app/crud/crud_permission_maps.py)*)
(* and the user-role assignment (app/api/v1/user_roles.py,                 *)
(* app/crud/crud_user_roles.py), with the deletion of a role               *)
(* (app/api/v1/roles.py), over an SQLAlchemy-style session: a committed    *)
(* store, the session's transaction-local view of it, a stack of           *)
(* savepoints and the pending (unflushed) inserts and deletes of the unit  *)
(* of work. A second request on a session of its own gives the concurrent  *)
(* readers and writers. The permission registry (app/core/permissions.py)  *)
(* is a tree with the results its two readers return.                      *)
(***************************************************************************)
EXTENDS Integers, Sequences, FiniteSets, TLC

\* ---------------------------------------------------------------- bounds
MaxItems == 2
MaxDepth == 2
MaxNames == 2
MaxLen == 2
MaxNodes == 4
MaxCalls == 2

\* --------------------------------------------------- permission registry
\* core/permissions.py: PermissionNode, without the display name.
PermissionNode(name, children) == [name |-> name, children |-> children]

permission_user_manage ==
    PermissionNode("user:manage",
        <<PermissionNode("user:create", <<>>),
          PermissionNode("user:read", <<>>),
          PermissionNode("user:update", <<>>),
          PermissionNode("user:delete", <<>>)>>)

permission_role_manage ==
    PermissionNode("role:manage",
        <<PermissionNode("role:create", <<>>),
          PermissionNode("role:read", <<>>),
          PermissionNode("role:update", <<>>),
          PermissionNode("role:assign", <<>>),
          PermissionNode("role:revoke", <<>>),
          PermissionNode("role:delete", <<>>)>>)

permission_root ==
    PermissionNode("root", <<permission_user_manage, permission_role_manage>>)

RECURSIVE walk(_)
RECURSIVE walk_children(_)
walk_postorder(node) == walk_children(node.children) \o <<node.name>>

walk(node) == <<node.name>> \o walk_children(node.children)

walk_children(children) ==
    IF children = <<>> THEN <<>>
    ELSE walk(Head(children)) \o walk_children(Tail(children))

flatten_permissions(root) == walk(root)

ToSet(seq) == {seq[i] : i \in 1..Len(seq)}

\* PermissionNode.to_dict (lines 41-46), without the display name.
RECURSIVE to_dict(_)
RECURSIVE to_dict_children(_)
to_dict(node) == [name |-> node.name, children |-> to_dict_children(node.children)]

to_dict_children(children) ==
    IF children = <<>> THEN <<>>
    ELSE <<to_dict(Head(children))>> \o to_dict_children(Tail(children))

\* permission_tree(), lines 96-98, on the tree the module holds.
permission_tree(root) == to_dict(root)

\* The module's tree, with what the calls of flatten_permissions and of
\* permission_tree made on it so far have returned.
Registry(root) == [root |-> root, flattened |-> <<>>, tree |-> <<>>]

\* The trees of PermissionNode a registry may hold: every tree of at most
\* MaxNodes nodes, names repeated or not, and the tree of lines 50-78.
RECURSIVE TreesOfSize(_)
RECURSIVE Forests(_)
TreesOfSize(n) ==
    {PermissionNode(name, children) :
        name \in {flatten_permissions(permission_root)[i] : i \in 1..MaxNames},
        children \in Forests(n - 1)}

Forests(m) ==
    IF m = 0 THEN {<<>>}
    ELSE UNION {{<<t>> \o f : t \in TreesOfSize(k), f \in Forests(m - k)} : k \in 1..m}

Trees == UNION {TreesOfSize(n) : n \in 1..MaxNodes} \cup {permission_root}

\* The names a request may carry: the first registry names and one name the
\* registry does not hold.
RegistryNames == {flatten_permissions(permission_root)[i] : i \in 1..MaxNames}

InputNames == RegistryNames \cup {"bogus:name"}

NameLists == UNION {[1..n -> InputNames] : n \in 0..MaxLen}

\* perms_in.permission_names: a list of names, or None.
PermsIn == [is_None : {FALSE}, permission_names : NameLists]
               \cup {[is_None |-> TRUE, permission_names |-> <<>>]}

\* Role ids: those of the role rows, and an id no role row has
\* (test_transaction_rollback.py line 45).
RoleIds == {1, 2}

MissingRole == 99999

\* ------------------------------------------------------------------ rows
Items == 1..MaxItems

ItemKeys == {<<"item", i>> : i \in Items}

\* models/permission_map.py: a permission row bound to a role.
PermKeys == {<<"perm", n, r>> : n \in RegistryNames, r \in RoleIds}

RoleKeys == {<<"role", r>> : r \in RoleIds \cup {MissingRole}}

\* User ids: those of the user rows, and an id no user row has.
UserIds == {1, 2}

MissingUser == MissingRole

UserKeys == {<<"user", u>> : u \in UserIds \cup {MissingUser}}

\* models/user_role.py: a role bound to a user, unique per pair.
UserRoleKeys == {<<"user_role", u, r>> : u \in UserIds, r \in RoleIds}

\* models/permission_map.py: a permission row bound to a user; its role_id
\* is NULL (line 21, default None).
UserPermKeys == {<<"user_perm", n, u>> : n \in RegistryNames, u \in UserIds}

\* The rows of the table "permission".
PermissionKeys == PermKeys \cup UserPermKeys

Keys ==
    ItemKeys \cup PermKeys \cup RoleKeys \cup UserKeys \cup UserRoleKeys \cup UserPermKeys

EmptyStore == [k \in Keys |-> 0]

\* The rows of a store: a store maps each row key to the number of rows
\* holding it.
Rows(store) == {k \in Keys : store[k] > 0}

\* select(PermissionMap).where(PermissionMap.role_id == role_id): the names
\* of the role's rows.
RolePermissions(store, role_id) ==
    {k[2] : k \in {q \in PermKeys : q[3] = role_id /\ store[q] > 0}}

\* select(UserRole.role_id).where(UserRole.user_id == user_id).
UserRoles(store, user_id) ==
    {k[3] : k \in {q \in UserRoleKeys : q[2] = user_id /\ store[q] > 0}}

\* INSERT under the table's unique key.
CanInsert(store, k) == store[k] = 0

InsertRow(store, k) == [store EXCEPT ![k] = @ + 1]

\* ------------------------------------------------------------ exceptions
\* An exception: its class, its message and the argument formatted into it.
Exc(type, msg, arg) == [type |-> type, msg |-> msg, arg |-> arg]

NoError == Exc("none", "", "")

\* config_exceptions.py, lines 1-10, raised with the message of lines 72-76.
MissingDatabaseSessionError ==
    Exc("MissingDatabaseSessionError", "AsyncSession not found or invalid type", "db")

\* A unique constraint violated by an INSERT.
IntegrityError == Exc("IntegrityError", "duplicate key", "")

\* What a wrapped operation raises: a domain error, a persistence error,
\* any other Exception (tests/test_unit_of_work.py, lines 50, 70, 128).
Raisable ==
    {Exc("HTTPException", "Bad request", ""),
     Exc("SQLAlchemyError", "Database error", ""),
     Exc("ValueError", "Test error", "")}

\* The task of the request is cancelled while the wrapped operation awaits:
\* asyncio.CancelledError, a BaseException and not an Exception.
CancelledError == Exc("CancelledError", "", "")

\* What a wrapped operation returns.
Value(v) ==
    [value |-> v, role_id |-> 0, permission_names |-> <<>>, user_id |-> 0, role_ids |-> <<>>]

NoValue == Value("none")

\* What the wrapped operation is called with besides the session.
NoRoles == [is_None |-> TRUE, role_ids |-> <<>>]

Input(role_id, perms_in) ==
    [role_id |-> role_id, perms_in |-> perms_in, user_id |-> 0, roles_in |-> NoRoles]

NoInput == Input(0, [is_None |-> TRUE, permission_names |-> <<>>])

UserInput(user_id, roles_in) == [NoInput EXCEPT !.user_id = user_id, !.roles_in = roles_in]

ReturnValues == {Value("success"), Value("nested_success")}

\* --------------------------------------------------------------- session
ClosedSession(store) ==
    [in_transaction |-> FALSE, view |-> store, savepoints |-> <<>>,
     new |-> EmptyStore, deleted |-> {}]

\* session.begin(): the transaction works on the committed store.
begin(store, s) == [s EXCEPT !.in_transaction = TRUE, !.view = store]

\* session.begin_nested(): SAVEPOINT. The session holds no pending rows
\* where the operations modelled here reach it.
begin_nested(s) == [s EXCEPT !.savepoints = Append(@, s.view)]

\* The unit of work's flush emits every INSERT before any DELETE.
FlushOK(s) == \A k \in Keys : s.new[k] > 0 => (s.view[k] = 0 /\ s.new[k] = 1)

Flushed(s) ==
    [k \in Keys |-> s.view[k] + s.new[k] - (IF k \in s.deleted THEN 1 ELSE 0)]

\* ---------------------------------------------------------- the wrapper
\* How the caller passes the session parameter.
SessionArgs == {"kwargs", "args", "absent", "wrong_type"}

\* Lines 53-69: db_session from kwargs, else from args by signature.
find_session(arg) ==
    IF arg = "kwargs" THEN "AsyncSession"
    ELSE IF arg = "args" THEN "AsyncSession"
    ELSE IF arg = "wrong_type" THEN "object"
    ELSE "None"

is_AsyncSession_unchecked(x) == TRUE

\* Line 71.
is_AsyncSession(x) == x = "AsyncSession"

Frame(fn, input, mode, path, sp, pre, ops) ==
    [fn |-> fn, input |-> input, commit_on_success |-> mode, path |-> path, pc |-> "running",
     result |-> NoValue, exc |-> NoError, calls |-> 1, ops |-> ops, writes |-> {},
     sp |-> sp, pre |-> pre, db_session |-> "unset", ambient |-> FALSE]

NoFrame ==
    [fn |-> "none", input |-> NoInput,
     commit_on_success |-> TRUE, path |-> "none", pc |-> "none",
     result |-> NoValue, exc |-> NoError, calls |-> 0, ops |-> <<>>, writes |-> {},
     sp |-> 0, pre |-> EmptyStore, db_session |-> "unset", ambient |-> FALSE]

NoCall == [frame |-> NoFrame, returned |-> NoValue, raised |-> NoError]

\* A second request, a task of its own on a session of its own: its
\* session, its call and its outcome while the first request runs.
OtherTask(store) ==
    [session |-> ClosedSession(store), stack |-> <<>>, last |-> NoCall]

VARIABLES committed, session, stack, last, other, registry

vars == <<committed, session, stack, last, other, registry>>

Top == stack[Len(stack)]

Idle == stack = <<>>

CanCall ==
    IF Idle THEN TRUE
    ELSE Len(stack) < MaxDepth /\ Top.pc = "running" /\ Top.fn = "func"

\* Lines 82-86 and 96-100: the scope the wrapper opens before it calls func.
scope_enter(fn, input, mode, s, store) ==
    IF s.in_transaction
    THEN [session |-> begin_nested(s),
          frame |-> Frame(fn, input, mode, "nested", Len(s.savepoints), s.view,
                          <<"in_transaction", "begin_nested">>)]
    ELSE [session |-> begin(store, s),
          frame |-> Frame(fn, input, mode, "top", Len(s.savepoints), store,
                          <<"in_transaction", "begin">>)]

\* wrapper, lines 51-100: find the session, check it, open the scope, call func.
wrapper_enter(fn, input, arg, mode) ==
    /\ CanCall
    /\ IF ~is_AsyncSession(find_session(arg))
       THEN /\ last' = [frame |-> [NoFrame EXCEPT !.fn = fn, !.input = input,
                                                   !.commit_on_success = mode,
                                                   !.db_session = find_session(arg),
                                                   !.ambient = session.in_transaction],
                        returned |-> NoValue,
                        raised |-> MissingDatabaseSessionError]
            /\ UNCHANGED <<committed, session, stack, other, registry>>
       ELSE LET e == scope_enter(fn, input, mode, session, committed) IN
            /\ session' = e.session
            /\ stack' = Append(stack, [e.frame EXCEPT !.db_session = find_session(arg),
                                                      !.ambient = session.in_transaction])
            /\ last' = NoCall
            /\ UNCHANGED <<committed, other, registry>>

session_commit_unchecked(s, store) ==
    [committed |-> Flushed(s), session |-> ClosedSession(Flushed(s)),
     raised |-> NoError, ops |-> <<"commit">>]

\* Leaving "async with db_session.begin()" normally: flush, then COMMIT; a
\* flush that fails rolls the transaction back and raises.
session_commit(s, store) ==
    IF FlushOK(s)
    THEN [committed |-> Flushed(s), session |-> ClosedSession(Flushed(s)),
          raised |-> NoError, ops |-> <<"commit">>]
    ELSE [committed |-> store, session |-> ClosedSession(store),
          raised |-> IntegrityError, ops |-> <<"commit", "rollback">>]

\* Leaving "async with db_session.begin()" by an exception: ROLLBACK.
session_rollback(s, store) ==
    [committed |-> store, session |-> ClosedSession(store),
     raised |-> NoError, ops |-> <<"rollback">>]

\* savepoint.rollback(): ROLLBACK TO SAVEPOINT; what the session held pending
\* inside the savepoint is dropped.
savepoint_rollback(s, store) ==
    [committed |-> store,
     session |-> [s EXCEPT !.view = s.savepoints[Len(s.savepoints)],
                           !.savepoints = SubSeq(@, 1, Len(@) - 1),
                           !.new = EmptyStore, !.deleted = {}],
     raised |-> NoError, ops |-> <<"savepoint.rollback">>]

\* Leaving "async with db_session.begin_nested()" normally: flush, then
\* RELEASE SAVEPOINT; the parent transaction stays open.
savepoint_release(s, store) ==
    IF FlushOK(s)
    THEN [committed |-> store,
          session |-> [s EXCEPT !.view = Flushed(s),
                                !.savepoints = SubSeq(@, 1, Len(@) - 1),
                                !.new = EmptyStore, !.deleted = {}],
          raised |-> NoError, ops |-> <<"release">>]
    ELSE [savepoint_rollback(s, store) EXCEPT
             !.raised = IntegrityError,
             !.ops = <<"release", "savepoint.rollback">>]

top_exit_never_commits(f, s, store) ==
    [session_rollback(s, store) EXCEPT
        !.raised = IF f.pc = "returned" THEN NoError ELSE f.exc]

top_exit_commits_on_raise(f, s, store) ==
    IF f.pc = "returned" THEN session_commit(s, store)
    ELSE [session_commit(s, store) EXCEPT !.raised = f.exc]

top_exit_read_only_rolls_back(f, s, store) ==
    IF f.pc = "returned"
    THEN IF f.commit_on_success THEN session_commit(s, store)
         ELSE session_rollback(s, store)
    ELSE [session_rollback(s, store) EXCEPT !.raised = f.exc]

top_exit_leaves_transaction_open(f, s, store) ==
    IF f.pc = "returned" THEN session_commit(s, store)
    ELSE [committed |-> store, session |-> s, raised |-> f.exc, ops |-> <<>>]

top_exit_commits_on_cancel(f, s, store) ==
    IF f.pc = "returned" THEN session_commit(s, store)
    ELSE IF f.pc = "cancelled" THEN [session_commit(s, store) EXCEPT !.raised = f.exc]
    ELSE [session_rollback(s, store) EXCEPT !.raised = f.exc]

\* Lines 98-106: the top-level path once func has returned or raised.
top_exit(f, s, store) ==
    IF f.pc = "returned"
    THEN \* line 102, then the exit of the context manager commits
         session_commit(s, store)
    ELSE \* lines 103-106: raise, the context manager rolls back; a
         \* BaseException passes line 103 and leaves the same way
         [session_rollback(s, store) EXCEPT !.raised = f.exc]

nested_exit_wraps_error(f, s, store) ==
    IF f.pc = "returned" THEN savepoint_release(s, store)
    ELSE [savepoint_rollback(s, store) EXCEPT
             !.raised = Exc("SQLAlchemyError", "Database error", "")]

nested_exit_commits_parent(f, s, store) ==
    IF f.pc = "returned" THEN session_commit(s, store)
    ELSE [savepoint_rollback(s, store) EXCEPT !.raised = f.exc]

nested_exit_rolls_back_parent(f, s, store) ==
    IF f.pc = "returned" THEN savepoint_release(s, store)
    ELSE [session_rollback(s, store) EXCEPT !.raised = f.exc]

nested_exit_commits_on_release(f, s, store) ==
    IF f.pc = "returned" /\ FlushOK(s)
    THEN [savepoint_release(s, store) EXCEPT !.committed = Flushed(s),
                                             !.ops = <<"release", "commit">>]
    ELSE IF f.pc = "returned" THEN savepoint_release(s, store)
    ELSE [savepoint_rollback(s, store) EXCEPT !.raised = f.exc]

nested_exit_keeps_savepoint(f, s, store) ==
    IF f.pc = "returned" THEN savepoint_release(s, store)
    ELSE [committed |-> store, session |-> s, raised |-> f.exc, ops |-> <<>>]

\* Lines 84-95: the nested path once func has returned or raised.
nested_exit(f, s, store) ==
    IF f.pc = "returned"
    THEN IF f.commit_on_success
         THEN \* lines 87-90: "pass"; the context manager releases the savepoint
              savepoint_release(s, store)
         ELSE savepoint_release(s, store)
    ELSE IF f.pc = "raised"
    THEN \* lines 91-95: savepoint.rollback(), then raise
         [savepoint_rollback(s, store) EXCEPT !.raised = f.exc]
    ELSE \* a BaseException passes "except Exception" (line 91); the context
         \* manager of line 84 exits with it and rolls the savepoint back
         [savepoint_rollback(s, store) EXCEPT !.raised = f.exc,
                                              !.ops = <<"savepoint.__aexit__">>]

\* Lines 82-106: leaving the scope the wrapper opened.
scope_exit(f, s, store) ==
    IF f.path = "top" THEN top_exit(f, s, store) ELSE nested_exit(f, s, store)

wrapper_exit_retries ==
    /\ ~Idle
    /\ Top.pc \in {"returned", "raised", "cancelled"}
    /\ LET f == Top
           x == scope_exit(f, session, committed)
           n == Len(stack)
           again == scope_enter(f.fn, f.input, f.commit_on_success, x.session, x.committed)
       IN
       IF x.raised # NoError /\ f.calls = 1
       THEN /\ committed' = x.committed
            /\ session' = again.session
            /\ stack' = [stack EXCEPT ![n] = [again.frame EXCEPT
                                                 !.calls = f.calls + 1,
                                                 !.db_session = f.db_session,
                                                 !.ambient = f.ambient]]
            /\ last' = NoCall
       ELSE /\ committed' = x.committed
            /\ session' = x.session
            /\ last' = [frame |-> [f EXCEPT !.ops = @ \o x.ops],
                        returned |-> IF x.raised = NoError THEN f.result ELSE NoValue,
                        raised |-> x.raised]
            /\ stack' = IF n = 1 THEN <<>>
                        ELSE [SubSeq(stack, 1, n - 1) EXCEPT
                                 ![n - 1].writes =
                                     IF x.raised = NoError THEN @ \cup f.writes ELSE @]
    /\ UNCHANGED <<other, registry>>

\* wrapper, lines 86-95 and 100-106: func is over, the scope exits and the
\* wrapper returns func's result or raises.
wrapper_exit ==
    /\ ~Idle
    /\ Top.pc \in {"returned", "raised", "cancelled"}
    /\ LET f == Top
           x == scope_exit(f, session, committed)
           n == Len(stack)
       IN
       /\ committed' = x.committed
       /\ session' = x.session
       /\ last' = [frame |-> [f EXCEPT !.ops = @ \o x.ops],
                   returned |-> IF x.raised = NoError THEN f.result ELSE NoValue,
                   raised |-> x.raised]
       /\ stack' = IF n = 1 THEN <<>>
                   ELSE [SubSeq(stack, 1, n - 1) EXCEPT
                            ![n - 1].writes =
                                IF x.raised = NoError THEN @ \cup f.writes ELSE @]
    /\ UNCHANGED <<other, registry>>

\* ------------------------------------------------- the wrapped operation
\* An arbitrary wrapped coroutine: it writes rows through the session, calls
\* other wrapped operations on the same session, and returns or raises.
Running == ~Idle /\ Top.pc = "running" /\ Top.fn = "func"

SetTop(f) == [stack EXCEPT ![Len(stack)] = f]

\* crud create(commit=False): the INSERT runs inside the open transaction.
FuncWrite(k) ==
    /\ Running
    /\ IF CanInsert(session.view, k)
       THEN /\ session' = [session EXCEPT !.view = InsertRow(@, k)]
            /\ stack' = SetTop([Top EXCEPT !.writes = @ \cup {k}])
       ELSE /\ stack' = SetTop([Top EXCEPT !.pc = "raised", !.exc = IntegrityError])
            /\ UNCHANGED session
    /\ last' = NoCall
    /\ UNCHANGED <<committed, other, registry>>

FuncRaise(e) ==
    /\ Running
    /\ stack' = SetTop([Top EXCEPT !.pc = "raised", !.exc = e])
    /\ last' = NoCall
    /\ UNCHANGED <<committed, session, other, registry>>

\* The await of the wrapped operation is cancelled.
FuncCancel ==
    /\ Running
    /\ stack' = SetTop([Top EXCEPT !.pc = "cancelled", !.exc = CancelledError])
    /\ last' = NoCall
    /\ UNCHANGED <<committed, session, other, registry>>

FuncReturn(v) ==
    /\ Running
    /\ stack' = SetTop([Top EXCEPT !.pc = "returned", !.result = v])
    /\ last' = NoCall
    /\ UNCHANGED <<committed, session, other, registry>>

\* ------------------------------------------- role-permission assignment
\* "x or []" (permissions.py line 51, crud_permission_maps.py line 19).
or_empty(perms_in) == IF perms_in.is_None THEN <<>> ELSE perms_in.permission_names

\* crud_roles.get(db=db, id=role_id): the role row, read in the transaction.
crud_roles_get(s, role_id) == s.view[<<"role", role_id>>] > 0

\* permissions.py line 52.
allowed == ToSet(flatten_permissions(permission_root))

\* permissions.py lines 53-55: the first incoming name the registry lacks
\* (0: none).
RECURSIVE first_unknown(_, _)
first_unknown(names, i) ==
    IF i > Len(names) THEN 0
    ELSE IF names[i] \notin allowed THEN i
    ELSE first_unknown(names, i + 1)

\* list(set(names)): each distinct name once; the order is immaterial.
RECURSIVE set_to_list(_)
set_to_list(S) ==
    IF S = {} THEN <<>>
    ELSE LET x == CHOOSE y \in S : TRUE IN <<x>> \o set_to_list(S \ {x})

unique_permissions_keeps_repeats(names) == names

unique_permissions(names) == set_to_list(ToSet(names))

\* db.add(PermissionMap(...)) for each name: the rows wait for the flush.
RECURSIVE add_all(_, _, _)
add_all(new, names, role_id) ==
    IF names = <<>> THEN new
    ELSE add_all([new EXCEPT ![<<"perm", Head(names), role_id>>] = @ + 1],
                 Tail(names), role_id)

assign_permissions_keeps_existing(s, role_id, permission_names) ==
    [s EXCEPT !.new = add_all(@, unique_permissions(permission_names), role_id)]

\* PermissionMap.role_id == role_id (crud_permission_maps.py line 14): a
\* NULL role_id equals no id.
role_id_is(k, role_id) == k \in PermKeys /\ k[3] = role_id

assign_permissions_deletes_every_row(s, role_id, permission_names) ==
    LET existing == {k \in PermissionKeys : s.view[k] > 0} IN
    [s EXCEPT !.deleted = @ \cup existing,
              !.new = add_all(@, unique_permissions(permission_names), role_id)]

\* crud_permission_maps.py lines 6-21: mark every row of the role deleted,
\* add a row per distinct name.
assign_permissions_to_role(s, role_id, permission_names) ==
    LET existing == {k \in PermissionKeys : role_id_is(k, role_id) /\ s.view[k] > 0} IN
    [s EXCEPT !.deleted = @ \cup existing,
              !.new = add_all(@, unique_permissions(permission_names), role_id)]

grant_role_permissions_drops_unknown_names(s, role_id, perms_in) ==
    LET incoming_names == or_empty(perms_in)
        known == SelectSeq(incoming_names, LAMBDA n : n \in allowed)
    IN
    IF ~crud_roles_get(s, role_id)
    THEN [session |-> s, pc |-> "raised", result |-> NoValue,
          exc |-> Exc("NotFoundException", "Role not found", "")]
    ELSE [session |-> assign_permissions_to_role(s, role_id, known),
          pc |-> "returned",
          result |-> [Value("dict") EXCEPT !.role_id = role_id,
                                           !.permission_names = incoming_names],
          exc |-> NoError]

grant_role_permissions_validates_late(s, role_id, perms_in) ==
    LET incoming_names == or_empty(perms_in)
        bad == first_unknown(incoming_names, 1)
        known == SelectSeq(incoming_names, LAMBDA n : n \in allowed)
    IN
    IF ~crud_roles_get(s, role_id)
    THEN [session |-> s, pc |-> "raised", result |-> NoValue,
          exc |-> Exc("NotFoundException", "Role not found", "")]
    ELSE IF bad # 0
    THEN [session |-> assign_permissions_to_role(s, role_id, known),
          pc |-> "raised", result |-> NoValue,
          exc |-> Exc("NotFoundException", "Permission not found: ", incoming_names[bad])]
    ELSE [session |-> assign_permissions_to_role(s, role_id, incoming_names),
          pc |-> "returned",
          result |-> [Value("dict") EXCEPT !.role_id = role_id,
                                           !.permission_names = incoming_names],
          exc |-> NoError]

grant_role_permissions_checks_names_first(s, role_id, perms_in) ==
    LET incoming_names == or_empty(perms_in)
        bad == first_unknown(incoming_names, 1)
    IN
    IF bad # 0
    THEN [session |-> s, pc |-> "raised", result |-> NoValue,
          exc |-> Exc("NotFoundException", "Permission not found: ", incoming_names[bad])]
    ELSE IF ~crud_roles_get(s, role_id)
    THEN [session |-> s, pc |-> "raised", result |-> NoValue,
          exc |-> Exc("NotFoundException", "Role not found", "")]
    ELSE [session |-> assign_permissions_to_role(s, role_id, incoming_names),
          pc |-> "returned",
          result |-> [Value("dict") EXCEPT !.role_id = role_id,
                                           !.permission_names = incoming_names],
          exc |-> NoError]

\* permissions.py lines 31-60: the body of grant_role_permissions.
grant_role_permissions(s, role_id, perms_in) ==
    LET incoming_names == or_empty(perms_in)
        bad == first_unknown(incoming_names, 1)
    IN
    IF ~crud_roles_get(s, role_id)
    THEN [session |-> s, pc |-> "raised", result |-> NoValue,
          exc |-> Exc("NotFoundException", "Role not found", "")]
    ELSE IF bad # 0
    THEN [session |-> s, pc |-> "raised", result |-> NoValue,
          exc |-> Exc("NotFoundException", "Permission not found: ", incoming_names[bad])]
    ELSE [session |-> assign_permissions_to_role(s, role_id, incoming_names),
          pc |-> "returned",
          result |-> [Value("dict") EXCEPT !.role_id = role_id,
                                           !.permission_names = incoming_names],
          exc |-> NoError]

\* The wrapper awaits func(*args, **kwargs) (unit_of_work.py lines 86, 100)
\* with func = grant_role_permissions.
GrantBody ==
    /\ ~Idle
    /\ Top.fn = "grant_role_permissions"
    /\ Top.pc = "running"
    /\ LET r == grant_role_permissions(session, Top.input.role_id, Top.input.perms_in) IN
       /\ session' = r.session
       /\ stack' = SetTop([Top EXCEPT !.pc = r.pc, !.result = r.result, !.exc = r.exc])
    /\ last' = NoCall
    /\ UNCHANGED <<committed, other, registry>>

\* PUT /permissions/role/{role_id}: the route is called with db=... and is
\* wrapped by @transactional() (permissions.py lines 31-32).
CallGrant ==
    \E role_id \in RoleIds \cup {MissingRole}, perms_in \in PermsIn :
        /\ Idle
        /\ last = NoCall
        /\ session.in_transaction => session.view = committed
        /\ wrapper_enter("grant_role_permissions", Input(role_id, perms_in), "kwargs", TRUE)

\* A wrapped operation called by other code, not by the router: the session
\* is passed by keyword or by position, or is missing or no session.
CallWrapped ==
    \E role_id \in {1, MissingRole}, perms_in \in PermsIn, arg \in SessionArgs :
        /\ Idle
        /\ last = NoCall
        /\ session.in_transaction => session.view = committed
        /\ wrapper_enter("grant_role_permissions", Input(role_id, perms_in), arg, TRUE)

\* -------------------------------------------------- user-role assignment
\* roles_in.role_ids: a list of role ids, or None.
RoleIdLists == UNION {[1..n -> RoleIds \cup {MissingRole}] : n \in 0..MaxLen}

RolesIn == [is_None : {FALSE}, role_ids : RoleIdLists] \cup {NoRoles}

\* "roles_in.role_ids or []" (user_roles.py line 34).
or_empty_ids(roles_in) == IF roles_in.is_None THEN <<>> ELSE roles_in.role_ids

\* What a caller passes for the role_id parameter: one id
\* (test_transaction_rollback.py line 85) or a list (user_roles.py line 43).
IdValue(r) == [is_list |-> FALSE, id |-> r, ids |-> <<>>]

ListValue(l) == [is_list |-> TRUE, id |-> 0, ids |-> l]

\* A list bound where the statement compares the role_id column with one
\* value: the statement cannot be executed.
StatementError == Exc("StatementError", "role_id", "list")

\* crud_users.get(db=db, id=user_id): the user row, read in the transaction.
crud_users_get(s, user_id) == s.view[<<"user", user_id>>] > 0

\* user_roles.py lines 37-40: the first incoming id without a role row
\* (0: none).
RECURSIVE first_missing_role(_, _, _)
first_missing_role(s, role_ids, i) ==
    IF i > Len(role_ids) THEN 0
    ELSE IF ~crud_roles_get(s, role_ids[i]) THEN i
    ELSE first_missing_role(s, role_ids, i + 1)

\* crud_user_roles.py lines 7-11: unless the pair is stored (the SELECT
\* flushes pending rows first), add one row for it.
assign_role_to_user(s, user_id, role_id) ==
    IF role_id.is_list
    THEN \* line 8: the SELECT compares the column with a list
         [session |-> s, exc |-> StatementError]
    ELSE LET k == <<"user_role", user_id, role_id.id>> IN
         IF s.view[k] + s.new[k] > 0
         THEN [session |-> s, exc |-> NoError]
         ELSE [session |-> [s EXCEPT !.new[k] = @ + 1], exc |-> NoError]

grant_user_roles_skips_role_check(s, user_id, roles_in) ==
    LET role_ids == or_empty_ids(roles_in)
        a == assign_role_to_user(s, user_id, ListValue(role_ids))
    IN
    IF ~crud_users_get(s, user_id)
    THEN [session |-> s, pc |-> "raised", result |-> NoValue,
          exc |-> Exc("NotFoundException", "User not found", "")]
    ELSE [session |-> a.session, pc |-> "raised", result |-> NoValue, exc |-> a.exc]

\* user_roles.py lines 20-45: the body of grant_user_roles.
grant_user_roles(s, user_id, roles_in) ==
    LET role_ids == or_empty_ids(roles_in)
        bad == first_missing_role(s, role_ids, 1)
        a == assign_role_to_user(s, user_id, ListValue(role_ids))
    IN
    IF ~crud_users_get(s, user_id)
    THEN [session |-> s, pc |-> "raised", result |-> NoValue,
          exc |-> Exc("NotFoundException", "User not found", "")]
    ELSE IF bad # 0
    THEN [session |-> s, pc |-> "raised", result |-> NoValue,
          exc |-> Exc("NotFoundException", "Role not found: ", ToString(role_ids[bad]))]
    ELSE IF a.exc # NoError
    THEN \* line 43 raises
         [session |-> a.session, pc |-> "raised", result |-> NoValue, exc |-> a.exc]
    ELSE [session |-> a.session, pc |-> "returned",
          result |-> [Value("dict") EXCEPT !.user_id = user_id, !.role_ids = role_ids],
          exc |-> NoError]

\* The wrapper awaits func(*args, **kwargs) with func = grant_user_roles.
GrantUserBody ==
    /\ ~Idle
    /\ Top.fn = "grant_user_roles"
    /\ Top.pc = "running"
    /\ LET r == grant_user_roles(session, Top.input.user_id, Top.input.roles_in) IN
       /\ session' = r.session
       /\ stack' = SetTop([Top EXCEPT !.pc = r.pc, !.result = r.result, !.exc = r.exc])
    /\ last' = NoCall
    /\ UNCHANGED <<committed, other, registry>>

\* PUT /user_roles/{user_id}: the route is called with db=... and is wrapped
\* by @transactional() (user_roles.py lines 20-21).
CallGrantUser ==
    \E user_id \in UserIds \cup {MissingUser}, roles_in \in RolesIn :
        /\ Idle
        /\ last = NoCall
        /\ session.in_transaction => session.view = committed
        /\ wrapper_enter("grant_user_roles", UserInput(user_id, roles_in), "kwargs", TRUE)

\* ---------------------------------------------- statements and readers
\* session.commit() and the release of a savepoint flush first: the pending
\* INSERTs go to the database, then the pending DELETEs, each a statement
\* of its own inside the transaction.
FlushInserts_autocommit ==
    /\ ~Idle
    /\ Top.pc = "returned"
    /\ session.new # EmptyStore
    /\ FlushOK(session)
    /\ session' = [session EXCEPT !.view = [k \in Keys |-> @[k] + session.new[k]],
                                  !.new = EmptyStore]
    /\ committed' = session'.view
    /\ last' = NoCall
    /\ UNCHANGED <<stack, other, registry>>

FlushInserts ==
    /\ ~Idle
    /\ Top.pc = "returned"
    /\ session.new # EmptyStore
    /\ FlushOK(session)
    /\ session' = [session EXCEPT !.view = [k \in Keys |-> @[k] + session.new[k]],
                                  !.new = EmptyStore]
    /\ last' = NoCall
    /\ UNCHANGED <<committed, stack, other, registry>>

FlushDeletes ==
    /\ ~Idle
    /\ Top.pc = "returned"
    /\ session.new = EmptyStore
    /\ session.deleted # {}
    /\ session' = [session EXCEPT
                       !.view = [k \in Keys |-> IF k \in session.deleted THEN 0 ELSE @[k]],
                       !.deleted = {}]
    /\ last' = NoCall
    /\ UNCHANGED <<committed, stack, other, registry>>

\* What a SELECT on another session reads: the committed rows, never the
\* rows of a transaction that is still open (read committed).
read_committed(store, s) == store

\* crud_user_roles.py lines 23-25.
list_user_roles(store, user_id) == set_to_list(UserRoles(store, user_id))

\* A request on another session reads the rows of the role
\* (crud_permission_maps.py line 14) a call in flight is replacing.
ReaderSelect ==
    \E role_id \in RoleIds :
        /\ ~Idle
        /\ Top.fn = "grant_role_permissions"
        /\ role_id = Top.input.role_id
        /\ last' = [frame |-> [NoFrame EXCEPT !.fn = "select", !.input = Input(role_id, NoInput.perms_in)],
                    returned |-> [Value("rows") EXCEPT
                                     !.role_id = role_id,
                                     !.permission_names =
                                         set_to_list(RolePermissions(
                                             read_committed(committed, session), role_id))],
                    raised |-> NoError]
        /\ UNCHANGED <<committed, session, stack, other, registry>>

\* A request on another session lists the roles of the user a call in
\* flight is replacing.
ReaderListUserRoles ==
    \E user_id \in UserIds :
        /\ ~Idle
        /\ Top.fn = "grant_user_roles"
        /\ user_id = Top.input.user_id
        /\ last' = [frame |-> [NoFrame EXCEPT !.fn = "list_user_roles",
                                              !.input = UserInput(user_id, NoRoles)],
                    returned |-> [Value("rows") EXCEPT
                                     !.user_id = user_id,
                                     !.role_ids =
                                         list_user_roles(read_committed(committed, session),
                                                         user_id)],
                    raised |-> NoError]
        /\ UNCHANGED <<committed, session, stack, other, registry>>

\* ------------------------------------------------------ concurrent requests
\* What a session that is resumed finds (read committed): its next
\* statement works on the rows committed by now, and the DELETE of a row it
\* loaded that another transaction has deleted since matches no row.
resume(s, store) ==
    IF s.in_transaction
    THEN [s EXCEPT !.view = store, !.deleted = @ \cap Rows(store)]
    ELSE ClosedSession(store)

suspend(s) == IF s.in_transaction THEN s ELSE ClosedSession(EmptyStore)

\* The running request is suspended at an await and the other request runs.
Switch ==
    /\ other' = [session |-> suspend(session), stack |-> stack, last |-> last]
    /\ session' = resume(other.session, committed)
    /\ stack' = other.stack
    /\ last' = other.last
    /\ UNCHANGED <<committed, registry>>

\* The role and the user that hold a row in the seeded store.
SeededRole == 1

SeededUser == 1

\* Two requests for the same role: PUT /permissions/role/{role_id}.
RequestGrant ==
    \E perms_in \in PermsIn :
        /\ Idle
        /\ last = NoCall
        /\ ~session.in_transaction
        /\ wrapper_enter("grant_role_permissions", Input(SeededRole, perms_in), "kwargs", TRUE)

\* Two requests for the same user: PUT /user_roles/{user_id}.
RequestGrantUser ==
    \E roles_in \in RolesIn :
        /\ Idle
        /\ last = NoCall
        /\ ~session.in_transaction
        /\ wrapper_enter("grant_user_roles", UserInput(SeededUser, roles_in), "kwargs", TRUE)

\* A caller that assigns one role inside a transaction of its own
\* (test_transaction_rollback.py lines 79-86): "async with db.begin()",
\* then assign_role_to_user with one role id.
ScriptAssign ==
    \E user_id \in UserIds, role_id \in RoleIds :
        /\ Idle
        /\ last = NoCall
        /\ ~session.in_transaction
        /\ LET a == assign_role_to_user(begin(committed, session), user_id, IdValue(role_id)) IN
           /\ session' = a.session
           /\ stack' = <<[Frame("script", UserInput(user_id, NoRoles), TRUE, "top", 0,
                                 committed, <<"begin">>) EXCEPT !.pc = "assigned"]>>
        /\ last' = NoCall
        /\ UNCHANGED <<committed, other, registry>>

\* The block of line 79 is left: flush, then COMMIT, or ROLLBACK and the
\* error of the flush.
ScriptExit ==
    /\ ~Idle
    /\ Top.pc = "assigned"
    /\ LET x == session_commit(session, committed) IN
       /\ committed' = x.committed
       /\ session' = x.session
       /\ last' = [frame |-> [Top EXCEPT !.ops = @ \o x.ops],
                   returned |-> NoValue,
                   raised |-> x.raised]
    /\ stack' = <<>>
    /\ UNCHANGED <<other, registry>>

\* ----------------------------------------------------- role administration
\* roles.py lines 100-120: after the role check, the user-role links of the
\* role (lines 110-112) and its permission rows (lines 115-117) are deleted
\* through the session, then the role row (line 119, commit=False); the
\* DELETE of line 119 flushes what is pending.
delete_role(s, role_id) ==
    IF ~crud_roles_get(s, role_id)
    THEN [session |-> s, result |-> NoValue,
          exc |-> Exc("HTTPException", "Role not found", "")]
    ELSE LET links == {k \in UserRoleKeys : k[3] = role_id}
             perms == {k \in PermKeys : k[3] = role_id}
             gone == links \cup perms \cup {<<"role", role_id>>}
         IN
         [session |-> [s EXCEPT !.view = [k \in Keys |-> IF k \in gone THEN 0 ELSE @[k]]],
          result |-> [Value("Role deleted") EXCEPT !.role_id = role_id],
          exc |-> NoError]

\* DELETE /role/{role_id}: the route is not wrapped by the manager; its
\* first statement begins the session's transaction, which is still open
\* when the route returns.
DeleteRole ==
    \E role_id \in RoleIds \cup {MissingRole} :
        /\ Idle
        /\ last = NoCall
        /\ ~session.in_transaction
        /\ LET r == delete_role(begin(committed, session), role_id) IN
           /\ session' = r.session
           /\ last' = [frame |-> [NoFrame EXCEPT !.fn = "delete_role",
                                                 !.input = Input(role_id, NoInput.perms_in),
                                                 !.pre = committed],
                       returned |-> r.result,
                       raised |-> r.exc]
        /\ UNCHANGED <<committed, stack, other, registry>>

\* ------------------------------------------------------ registry calls
Flatten_consumes_children ==
    /\ Len(registry.flattened) < MaxCalls
    /\ registry' = [registry EXCEPT
                        !.flattened = Append(@, flatten_permissions(registry.root)),
                        !.root = [@ EXCEPT !.children = <<>>]]
    /\ UNCHANGED <<committed, session, stack, last, other>>

\* A call of flatten_permissions(permission_root) (core/permissions.py lines
\* 83-93; api/v1/permissions.py line 52): names is a list of its own, the
\* nodes are only read.
Flatten ==
    /\ Len(registry.flattened) < MaxCalls
    /\ registry' = [registry EXCEPT
                        !.flattened = Append(@, flatten_permissions(registry.root))]
    /\ UNCHANGED <<committed, session, stack, last, other>>

\* A call of permission_tree() (lines 96-98): to_dict builds new dicts.
PermissionTree ==
    /\ Len(registry.tree) < MaxCalls
    /\ registry' = [registry EXCEPT !.tree = Append(@, permission_tree(registry.root))]
    /\ UNCHANGED <<committed, session, stack, last, other>>

\* ------------------------------------------------------------ the caller
\* The code around the manager: it may already hold a transaction on the
\* session (test_transaction_rollback.py, lines 39-45 and 79-86).
CallerBegin ==
    /\ Idle
    /\ ~session.in_transaction
    /\ session' = begin(committed, session)
    /\ last' = NoCall
    /\ UNCHANGED <<committed, stack, other, registry>>

CallerWrite(k) ==
    /\ Idle
    /\ session.in_transaction
    /\ CanInsert(session.view, k)
    /\ session' = [session EXCEPT !.view = InsertRow(@, k)]
    /\ last' = NoCall
    /\ UNCHANGED <<committed, stack, other, registry>>

CallerCommit ==
    /\ Idle
    /\ session.in_transaction
    /\ committed' = session.view
    /\ session' = ClosedSession(session.view)
    /\ last' = NoCall
    /\ UNCHANGED <<stack, other, registry>>

CallerRollback ==
    /\ Idle
    /\ session.in_transaction
    /\ session' = ClosedSession(committed)
    /\ last' = NoCall
    /\ UNCHANGED <<committed, stack, other, registry>>

\* The route's outcome goes out as the response; the next request follows.
Respond ==
    /\ Idle
    /\ last # NoCall
    /\ last' = NoCall
    /\ UNCHANGED <<committed, session, stack, other, registry>>

\* ------------------------------------------------------- specification
Init ==
    /\ committed = EmptyStore
    /\ session = ClosedSession(EmptyStore)
    /\ stack = <<>>
    /\ last = NoCall
    /\ other = OtherTask(EmptyStore)
    /\ registry = Registry(permission_root)

Call ==
    \E arg \in SessionArgs, mode \in BOOLEAN : wrapper_enter("func", NoInput, arg, mode)

Write == \E k \in ItemKeys : FuncWrite(k)

Raise == \E e \in Raisable : FuncRaise(e)

Return == \E v \in ReturnValues : FuncReturn(v)

OuterWrite == \E k \in ItemKeys : CallerWrite(k)

Next ==
    \/ Call
    \/ Write
    \/ Raise
    \/ Return
    \/ wrapper_exit
    \/ CallerBegin
    \/ OuterWrite
    \/ CallerCommit
    \/ CallerRollback

Spec == Init /\ [][Next]_vars

\* The assignment protocol: every role of RoleIds exists, with any
\* permission rows.
InitPerm ==
    /\ \E P \in SUBSET PermKeys :
          committed = [k \in Keys |->
                          IF k \in P \/ (k \in RoleKeys /\ k[2] \in RoleIds)
                          THEN 1 ELSE 0]
    /\ session = ClosedSession(committed)
    /\ stack = <<>>
    /\ last = NoCall
    /\ other = OtherTask(EmptyStore)
    /\ registry = Registry(permission_root)

NextPerm ==
    \/ CallGrant
    \/ GrantBody
    \/ wrapper_exit
    \/ CallerBegin
    \/ CallerCommit
    \/ CallerRollback
    \/ Respond

SpecPerm == InitPerm /\ [][NextPerm]_vars

\* The store with a row for every role of RoleIds and every user of
\* UserIds, and the given permission and user-role rows.
Seeded(P) ==
    [k \in Keys |->
        IF \/ k \in P
           \/ (k \in RoleKeys /\ k[2] \in RoleIds)
           \/ (k \in UserKeys /\ k[2] \in UserIds)
        THEN 1 ELSE 0]

\* The user-role protocol: every user holds any set of roles.
InitUser ==
    /\ \E P \in SUBSET UserRoleKeys : committed = Seeded(P)
    /\ session = ClosedSession(committed)
    /\ stack = <<>>
    /\ last = NoCall
    /\ other = OtherTask(EmptyStore)
    /\ registry = Registry(permission_root)

NextUser ==
    \/ CallGrantUser
    \/ GrantUserBody
    \/ wrapper_exit
    \/ CallerBegin
    \/ CallerCommit
    \/ CallerRollback
    \/ Respond

SpecUser == InitUser /\ [][NextUser]_vars

\* Both protocols, called inside and outside a transaction of the caller:
\* role 1 holds "root" and user 1 holds role 1.
InitAssign ==
    /\ committed = Seeded({<<"perm", "root", 1>>, <<"user_role", 1, 1>>})
    /\ session = ClosedSession(committed)
    /\ stack = <<>>
    /\ last = NoCall
    /\ other = OtherTask(EmptyStore)
    /\ registry = Registry(permission_root)

NextAssign ==
    \/ CallGrant
    \/ GrantBody
    \/ CallGrantUser
    \/ GrantUserBody
    \/ wrapper_exit
    \/ CallerBegin
    \/ CallerCommit
    \/ CallerRollback
    \/ Respond

SpecAssign == InitAssign /\ [][NextAssign]_vars

\* Both protocols as top-level calls, statement by statement, with readers
\* on another session.
NextRead ==
    \/ CallGrant
    \/ GrantBody
    \/ CallGrantUser
    \/ GrantUserBody
    \/ FlushInserts
    \/ FlushDeletes
    \/ wrapper_exit
    \/ Respond
    \/ ReaderSelect
    \/ ReaderListUserRoles

SpecRead == InitAssign /\ [][NextRead]_vars

\* The two protocols and role administration, one request after the other;
\* the session of a request that leaves its transaction open is committed
\* or rolled back when the request ends.
NextAdmin ==
    \/ CallGrant
    \/ GrantBody
    \/ CallGrantUser
    \/ GrantUserBody
    \/ wrapper_exit
    \/ DeleteRole
    \/ CallerCommit
    \/ CallerRollback
    \/ Respond

SpecAdmin == InitAssign /\ [][NextAdmin]_vars

\* Two requests, each one replaceRolePermissions call on its own session,
\* interleaved at their awaits.
NextConc ==
    \/ CallGrant
    \/ GrantBody
    \/ wrapper_exit
    \/ Switch

SpecConc == InitAssign /\ [][NextConc]_vars

\* The manager around replaceRolePermissions, called with and without a
\* session, inside and outside a transaction of the caller.
NextOnce ==
    \/ CallWrapped
    \/ GrantBody
    \/ wrapper_exit
    \/ CallerBegin
    \/ CallerCommit
    \/ CallerRollback
    \/ Respond

SpecOnce == InitAssign /\ [][NextOnce]_vars

\* The assignment protocol on a store that holds, besides any permission
\* rows of the roles, the permission rows bound to users and the roles of
\* the users.
InitFrame ==
    /\ \E P \in SUBSET PermKeys : committed = Seeded(P \cup UserPermKeys \cup UserRoleKeys)
    /\ session = ClosedSession(committed)
    /\ stack = <<>>
    /\ last = NoCall
    /\ other = OtherTask(EmptyStore)
    /\ registry = Registry(permission_root)

SpecFrame == InitFrame /\ [][NextPerm]_vars

\* Two requests that assign: each one call of either protocol or one
\* assignment of the caller's own, interleaved at their awaits.
NextUnique ==
    \/ RequestGrant
    \/ GrantBody
    \/ RequestGrantUser
    \/ GrantUserBody
    \/ wrapper_exit
    \/ ScriptAssign
    \/ ScriptExit
    \/ Switch

SpecUnique == InitAssign /\ [][NextUnique]_vars

\* The manager around an operation that is cancelled.
NextCancel ==
    \/ Call
    \/ Write
    \/ FuncCancel
    \/ Return
    \/ wrapper_exit
    \/ CallerBegin
    \/ OuterWrite
    \/ CallerCommit
    \/ CallerRollback

SpecCancel == Init /\ [][NextCancel]_vars

\* The registry: any tree, flattened and shown any number of times.
InitRegistry ==
    /\ committed = EmptyStore
    /\ session = ClosedSession(EmptyStore)
    /\ stack = <<>>
    /\ last = NoCall
    /\ other = OtherTask(EmptyStore)
    /\ \E root \in Trees : registry = Registry(root)

NextRegistry ==
    \/ Flatten
    \/ PermissionTree

SpecRegistry == InitRegistry /\ [][NextRegistry]_vars

\* ---------------------------------------------------------------- claims
\* The invocation that has just returned or raised.
L == last.frame

\* What the wrapper can find where no session was passed.
NoSession == {"None", "object"}

Opens(ops) == Cardinality({i \in 1..Len(ops) : ops[i] \in {"begin", "begin_nested"}})

\* C1: an invocation with a valid session outside any transaction opens a
\* top-level transaction with begin(); when the wrapped call returns, the
\* transaction is committed at scope exit, every write of the call is in the
\* committed store and the wrapper returns the wrapped call's result.
C1_TopLevelCommit ==
    /\ \A i \in 1..Len(stack) :
          ~stack[i].ambient => (stack[i].ops = <<"in_transaction", "begin">> /\ i = 1)
    /\ (L.db_session = "AsyncSession" /\ ~L.ambient /\ L.pc = "returned") =>
          /\ L.ops = <<"in_transaction", "begin", "commit">>
          /\ last.raised = NoError
          /\ last.returned = L.result
          /\ ~session.in_transaction
          /\ \A k \in L.writes : committed[k] = 1
          /\ Rows(committed) = Rows(L.pre) \cup L.writes

C1_Witness ==
    /\ ~L.ambient /\ L.pc = "returned"
    /\ L.writes = ItemKeys
    /\ last.returned = Value("success")
    /\ Rows(committed) = ItemKeys

\* C2: when the wrapped call of a top-level invocation raises after it made
\* writes, the transaction is rolled back: the committed store is what it
\* was before the call and no write of the call is visible.
C2_TopLevelRollback ==
    (L.db_session = "AsyncSession" /\ ~L.ambient /\ L.pc = "raised") =>
        /\ committed = L.pre
        /\ \A k \in L.writes : committed[k] = 0
        /\ ~session.in_transaction
        /\ session.view = committed
        /\ "commit" \notin {L.ops[i] : i \in 1..Len(L.ops)}
        /\ last.raised = L.exc

C2_Witness ==
    /\ ~L.ambient /\ L.pc = "raised"
    /\ Cardinality(L.writes) = 1
    /\ Rows(committed) = {}

\* C3: whatever the wrapped operation raises, on the top-level and on the
\* nested path and in both modes, the wrapper raises that same error: it
\* neither returns nor raises another error.
C3_SameErrorReraised ==
    (L.pc = "raised") => (last.raised = L.exc /\ last.returned = NoValue)

C3_Witness ==
    /\ L.pc = "raised" /\ L.path = "nested" /\ ~L.commit_on_success
    /\ L.exc = Exc("HTTPException", "Bad request", "")
    /\ last.raised.type = "HTTPException"

\* C4: with the session already in a transaction the wrapper opens a
\* savepoint with begin_nested() and never begin(); when the wrapped call
\* returns the savepoint is merged into the parent, nothing is committed and
\* the parent transaction is still open.
C4_NestedSavepoint ==
    /\ \A i \in 1..Len(stack) :
          stack[i].ambient => stack[i].ops = <<"in_transaction", "begin_nested">>
    /\ (L.db_session = "AsyncSession" /\ L.ambient /\ L.pc = "returned") =>
          /\ L.ops = <<"in_transaction", "begin_nested", "release">>
          /\ session.in_transaction
          /\ Len(session.savepoints) = L.sp
          /\ Rows(session.view) = Rows(L.pre) \cup L.writes
          /\ \A k \in L.writes : committed[k] = 0
          /\ last.returned = L.result

C4_Witness ==
    /\ L.ambient /\ L.pc = "returned"
    /\ L.writes # {}
    /\ Idle
    /\ last.returned = Value("nested_success")

JustFailedNested == L.db_session = "AsyncSession" /\ L.ambient /\ L.pc = "raised"

\* C5: a nested invocation that raises undoes only its own writes: the
\* outer transaction is still open and holds exactly what it held before
\* the nested call, and the outer caller can then commit, which makes
\* exactly those earlier writes visible, or roll back.
C5_NestedRollbackIsolation ==
    /\ [](JustFailedNested =>
            /\ session.in_transaction
            /\ session.view = L.pre
            /\ Len(session.savepoints) = L.sp
            /\ (Idle => ENABLED CallerCommit /\ ENABLED CallerRollback))
    /\ [][(JustFailedNested /\ CallerCommit) => committed' = L.pre]_vars
    /\ [][(JustFailedNested /\ CallerRollback) =>
              (committed' = committed /\ ~session'.in_transaction)]_vars

C5_Witness ==
    /\ JustFailedNested /\ Idle
    /\ L.writes # {}
    /\ Rows(session.view) # {}
    /\ Rows(committed) = {}

\* C6: with the session parameter missing or not a session, the wrapper
\* raises MissingDatabaseSessionError without any session operation and
\* without calling the wrapped operation; the store is unchanged.
C6_MissingSessionFailsFirst ==
    /\ [](/\ \A i \in 1..Len(stack) : stack[i].db_session = "AsyncSession"
          /\ (L.db_session \in NoSession) =>
                /\ last.raised = MissingDatabaseSessionError
                /\ last.returned = NoValue
                /\ L.calls = 0
                /\ L.ops = <<>>)
    /\ [][(last'.frame.db_session \in NoSession) =>
              UNCHANGED <<committed, session, stack>>]_vars

C6_Witness ==
    /\ L.db_session = "object"
    /\ last.raised = MissingDatabaseSessionError
    /\ session.in_transaction
    /\ Rows(session.view) # {}

ReadOnly(f) == [f EXCEPT !.commit_on_success = FALSE]

Transactional(f) == [f EXCEPT !.commit_on_success = TRUE]

C8_ReadOnlyCommitsNothing ==
    (L.db_session = "AsyncSession" /\ ~L.commit_on_success /\ last.returned # NoValue) =>
        \A k \in L.writes : committed[k] = 0

ScopeClosed ==
    IF L.ambient
    THEN session.in_transaction /\ Len(session.savepoints) = L.sp
    ELSE ~session.in_transaction /\ session.savepoints = <<>>

\* C9: every invocation with a valid session opens exactly one scope, by
\* begin() or by begin_nested(), and that scope is closed when the
\* invocation returns or raises.
C9_OneScopePerInvocation ==
    /\ \A i \in 1..Len(stack) :
          /\ Opens(stack[i].ops) = 1
          /\ Len(session.savepoints) >= stack[i].sp
    /\ (L.db_session = "AsyncSession" /\ L.pc # "none") => (Opens(L.ops) = 1 /\ ScopeClosed)

C9_Witness ==
    /\ L.ambient /\ L.pc = "raised"
    /\ Len(stack) = 1
    /\ Len(session.savepoints) = L.sp

\* The store a call that has just returned left its rows in: the committed
\* store, or the open parent transaction of a nested call.
Applied == IF L.ambient THEN session.view ELSE committed

\* C10: replaceRolePermissions is a full replace: after a call for role r
\* with input S succeeds, the rows of r are exactly the distinct names of
\* S, one row each, whatever r held before; empty and None leave no row.
C10_FullReplace ==
    (L.fn = "grant_role_permissions" /\ L.pc = "returned" /\ last.raised = NoError) =>
        /\ RolePermissions(Applied, L.input.role_id) = ToSet(or_empty(L.input.perms_in))
        /\ \A k \in PermKeys : Applied[k] <= 1
        /\ ~L.ambient => ~session.in_transaction

C10_Witness ==
    /\ L.fn = "grant_role_permissions" /\ last.raised = NoError /\ ~L.ambient
    /\ L.input.role_id = 1
    /\ RolePermissions(L.pre, 1) = {"root"}
    /\ L.input.perms_in.permission_names = <<"user:manage", "user:manage">>
    /\ RolePermissions(committed, 1) = {"user:manage"}

\* The call that has just ended was replaceRolePermissions.
Granted == L.fn = "grant_role_permissions"

GrantNames == or_empty(L.input.perms_in)

RoleExisted == L.pre[<<"role", L.input.role_id>>] > 0

\* The places of the incoming names the registry does not hold.
Unknown(names) == {i \in 1..Len(names) : names[i] \notin ToSet(flatten_permissions(permission_root))}

Least(S) == CHOOSE i \in S : \A j \in S : i <= j

\* Nothing of the call is left in the session or in the store.
NothingApplied ==
    /\ Applied = L.pre
    /\ session.new = EmptyStore
    /\ session.deleted = {}
    /\ ~L.ambient => committed = L.pre

\* C11: when an incoming name of replaceRolePermissions for an existing role
\* is not in the flattened registry, the call fails with NotFound naming the
\* unknown name and the stored rows are exactly those from before the call,
\* also when the input holds valid names too.
C11_UnknownNameChangesNothing ==
    (Granted /\ RoleExisted /\ Unknown(GrantNames) # {}) =>
        /\ last.raised = Exc("NotFoundException", "Permission not found: ",
                             GrantNames[Least(Unknown(GrantNames))])
        /\ last.returned = NoValue
        /\ NothingApplied
        /\ RolePermissions(Applied, L.input.role_id) = RolePermissions(L.pre, L.input.role_id)

C11_Witness ==
    /\ Granted /\ ~L.ambient
    /\ L.input.role_id = 1
    /\ GrantNames = <<"root", "bogus:name">>
    /\ last.raised.arg = "bogus:name"
    /\ RolePermissions(committed, 1) = {"user:manage"}

\* C12: replaceRolePermissions checks the role first: for a role id without
\* a role row the call fails with NotFound "Role not found" whatever names
\* it carries, unknown ones included, and no permission row of any role is
\* created or deleted.
C12_MissingRoleFailsFirst ==
    (Granted /\ ~RoleExisted) =>
        /\ last.raised = Exc("NotFoundException", "Role not found", "")
        /\ last.returned = NoValue
        /\ NothingApplied
        /\ \A r \in RoleIds : RolePermissions(Applied, r) = RolePermissions(L.pre, r)

C12_Witness ==
    /\ Granted /\ L.input.role_id = MissingRole
    /\ Unknown(GrantNames) # {}
    /\ last.raised.msg = "Role not found"
    /\ Rows(committed) \cap PermKeys # {}

C14_ReturnsAppliedSet ==
    (Granted /\ last.raised = NoError /\ last.returned # NoValue) =>
        LET names == last.returned.permission_names IN
        /\ Cardinality(ToSet(names)) = Len(names)
        /\ ToSet(names) = RolePermissions(Applied, L.input.role_id)

\* The call that has just ended was replaceUserRoles.
UserGranted == L.fn = "grant_user_roles"

GrantIds == or_empty_ids(L.input.roles_in)

UserExisted == L.pre[<<"user", L.input.user_id>>] > 0

\* The places of the incoming ids without a role row before the call.
Missing(role_ids) == {i \in 1..Len(role_ids) : L.pre[<<"role", role_ids[i]>>] = 0}

\* C15: replaceUserRoles is a full replace: after a call for an existing
\* user with existing role ids succeeds, the user's rows are exactly the
\* distinct ids of the input; in particular an empty or absent input leaves
\* a user who held roles with no role at all.
C15_UserFullReplace ==
    /\ (UserGranted /\ UserExisted /\ Missing(GrantIds) = {} /\ last.raised = NoError
            /\ L.pc = "returned") =>
          UserRoles(Applied, L.input.user_id) = ToSet(GrantIds)
    /\ (UserGranted /\ UserExisted /\ GrantIds = <<>>) =>
          UserRoles(Applied, L.input.user_id) = {}

\* C16: replaceUserRoles validates before it mutates: an unknown user id
\* fails with NotFound "User not found" whatever the role ids are, an input
\* role id without a role row fails with NotFound naming that id, and in
\* both cases the role assignments of every user are what they were.
C16_UserValidationFirst ==
    /\ (UserGranted /\ ~UserExisted) =>
          /\ last.raised = Exc("NotFoundException", "User not found", "")
          /\ last.returned = NoValue
          /\ NothingApplied
    /\ (UserGranted /\ UserExisted /\ Missing(GrantIds) # {}) =>
          /\ last.raised = Exc("NotFoundException", "Role not found: ",
                               ToString(GrantIds[Least(Missing(GrantIds))]))
          /\ last.returned = NoValue
          /\ NothingApplied
          /\ \A u \in UserIds : UserRoles(Applied, u) = UserRoles(L.pre, u)

C16_Witness ==
    /\ UserGranted /\ UserExisted /\ ~L.ambient
    /\ L.input.user_id = 1
    /\ GrantIds = <<1, MissingRole>>
    /\ last.raised.arg = "99999"
    /\ UserRoles(committed, 1) = {2}

\* A call of one of the two protocols has just failed its existence or
\* registry validation.
ValidationFailed ==
    /\ L.fn \in {"grant_role_permissions", "grant_user_roles"}
    /\ last.raised.type = "NotFoundException"

\* C17 as stated: in both protocols the validation errors (missing role,
\* missing user, unknown permission name, unknown role id) are raised before
\* the manager opens a scope: no begin() and no begin_nested() has happened
\* on such a call.
C17_ValidationBeforeScope == ValidationFailed => Opens(L.ops) = 0

\* C17 amended: in both protocols the validation errors are raised inside
\* the one scope the manager has opened with begin() or begin_nested(),
\* before any row is staged for deletion or insertion; the scope is then
\* rolled back, the store and the caller's transaction are what they were
\* and the error is raised unchanged.
C17_ValidationInsideScope ==
    /\ (~Idle /\ Top.pc = "raised" /\ Top.exc.type = "NotFoundException") =>
          /\ Opens(Top.ops) = 1
          /\ session.new = EmptyStore
          /\ session.deleted = {}
          /\ session.view = Top.pre
    /\ ValidationFailed =>
          /\ L.ops = IF L.ambient
                     THEN <<"in_transaction", "begin_nested", "savepoint.rollback">>
                     ELSE <<"in_transaction", "begin", "rollback">>
          /\ NothingApplied
          /\ last.raised = L.exc

C17_Witness ==
    /\ ValidationFailed
    /\ L.fn = "grant_user_roles" /\ L.ambient
    /\ L.ops = <<"in_transaction", "begin_nested", "savepoint.rollback">>
    /\ last.raised.msg = "Role not found: "
    /\ session.in_transaction

\* The role's names and the user's roles a replace call that is over may
\* leave committed: those from before the call, or those of its input.
OldOrNew(f, store) ==
    /\ f.fn = "grant_role_permissions" =>
          RolePermissions(store, f.input.role_id)
              \in {RolePermissions(f.pre, f.input.role_id), ToSet(or_empty(f.input.perms_in))}
    /\ f.fn = "grant_user_roles" =>
          UserRoles(store, f.input.user_id)
              \in {UserRoles(f.pre, f.input.user_id), ToSet(or_empty_ids(f.input.roles_in))}

\* C20: while a replace call for a role or a user is in flight, a reader on
\* another session never sees the state between its deletes and inserts:
\* it reads the complete set from before the call until the call's commit,
\* which puts the complete old or the complete new set in its place at
\* once; it reads no rows only if that set is empty.
C20_ReaderSeesOldOrNew ==
    /\ []((~Idle /\ L.fn = "select") =>
             ToSet(last.returned.permission_names)
                 = RolePermissions(Top.pre, L.input.role_id))
    /\ []((~Idle /\ L.fn = "list_user_roles") =>
             ToSet(last.returned.role_ids) = UserRoles(Top.pre, L.input.user_id))
    /\ [][committed' # committed => (~Idle /\ Idle')]_vars
    /\ [][(~Idle /\ Idle') => OldOrNew(Top, committed')]_vars

C20_Witness ==
    /\ ~Idle /\ L.fn = "select"
    /\ Top.pc = "returned" /\ Top.input.role_id = 1
    /\ session.new = EmptyStore /\ session.deleted = {}
    /\ RolePermissions(session.view, 1) = {"user:manage"}
    /\ last.returned.permission_names = <<"root">>

\* The role-permission rows and the user-role rows a store holds.
AssignmentRows(store) == Rows(store) \cap (PermKeys \cup UserRoleKeys)

\* C18: role-permission rows and user-role rows are written only by the two
\* assignment protocols: a step in which such a row appears in or disappears
\* from the session's transaction is a step of a replaceRolePermissions or
\* replaceUserRoles call in flight; no step of another operation is.
C18_OnlyProtocolsWrite ==
    [][(/\ session'.in_transaction
        /\ AssignmentRows(Flushed(session')) # AssignmentRows(Flushed(session)))
          => ~Idle]_vars

\* A top-level replaceRolePermissions call that has committed.
Committed(call) ==
    /\ call.frame.fn = "grant_role_permissions"
    /\ call.frame.path = "top"
    /\ call.frame.pc = "returned"
    /\ call.raised = NoError

\* C19: two concurrent replace calls for the same role, each on its own
\* session, resolve as last-commit-wins: when the second of them commits,
\* the role's rows are exactly the distinct names of that call's input,
\* never a mixture with the rows of the call that committed before.
C19_LastCommitWins ==
    [][(/\ ~Idle /\ Idle'
        /\ Committed(other.last)
        /\ Committed(last')
        /\ other.last.frame.input.role_id = Top.input.role_id)
          => RolePermissions(committed', Top.input.role_id)
                 = ToSet(or_empty(Top.input.perms_in))]_vars

\* The number of nodes of a tree.
RECURSIVE Size(_)
RECURSIVE SizeAll(_)
Size(node) == 1 + SizeAll(node.children)

SizeAll(children) ==
    IF children = <<>> THEN 0 ELSE Size(Head(children)) + SizeAll(Tail(children))

\* The number of nodes of a tree that carry the name n.
RECURSIVE Named(_, _)
RECURSIVE NamedAll(_, _)
Named(node, n) == (IF node.name = n THEN 1 ELSE 0) + NamedAll(node.children, n)

NamedAll(children, n) ==
    IF children = <<>> THEN 0 ELSE Named(Head(children), n) + NamedAll(Tail(children), n)

Occurrences(seq, n) == Cardinality({i \in 1..Len(seq) : seq[i] = n})

\* seq lists the tree in preorder: the node's name first, then, for each
\* child in declared order, one contiguous stretch that lists the child's
\* subtree in preorder.
RECURSIVE Preorder(_, _)
RECURSIVE PreorderAll(_, _)
Preorder(node, seq) ==
    /\ seq # <<>>
    /\ Head(seq) = node.name
    /\ PreorderAll(node.children, Tail(seq))

PreorderAll(children, seq) ==
    IF children = <<>> THEN seq = <<>>
    ELSE LET n == Size(Head(children)) IN
         /\ Len(seq) >= n
         /\ Preorder(Head(children), SubSeq(seq, 1, n))
         /\ PreorderAll(Tail(children), SubSeq(seq, n + 1, Len(seq)))

\* C23: flatten returns the names in preorder, root first: the result holds
\* each node's name once per node, every node's name comes before the names
\* of its descendants, and siblings come in declared order, each subtree as
\* one contiguous stretch.
C23_FlattenIsPreorder ==
    \A c \in 1..Len(registry.flattened) :
        LET names == registry.flattened[c] IN
        /\ Len(names) = Size(registry.root)
        /\ names[1] = registry.root.name
        /\ \A n \in ToSet(names) : Occurrences(names, n) = Named(registry.root, n)
        /\ Preorder(registry.root, names)

C23_Witness ==
    /\ registry.root = permission_root
    /\ registry.flattened =
           <<(<<"root", "user:manage", "user:create", "user:read", "user:update",
                "user:delete", "role:manage", "role:create", "role:read",
                "role:update", "role:assign", "role:revoke", "role:delete">>)>>

\* C24: flatten is deterministic and idempotent: two calls on the tree
\* return the same sequence in the same order, and no call of flatten or of
\* permission_tree changes the tree.
C24_FlattenIdempotent ==
    /\ [](\A c, d \in 1..Len(registry.flattened) :
              registry.flattened[c] = registry.flattened[d])
    /\ [](\A c, d \in 1..Len(registry.tree) : registry.tree[c] = registry.tree[d])
    /\ [][registry'.root = registry.root]_vars

C24_Witness ==
    /\ Len(registry.flattened) = MaxCalls
    /\ Len(registry.tree) = MaxCalls
    /\ Size(registry.root) = MaxNodes
    /\ Len(registry.root.children) > 1
    /\ registry.flattened[1] = registry.flattened[MaxCalls]

JustCancelled == L.db_session = "AsyncSession" /\ L.pc = "cancelled"

\* C22: when the wrapped call is cancelled, the scope exit still runs and
\* rolls the scope back on both paths: the wrapper raises the cancellation,
\* the store is what it was, a top-level call leaves no transaction open, a
\* nested call leaves the parent transaction as it was before the call with
\* no savepoint of the call, and no commit of the caller that follows makes
\* a write of the cancelled call visible.
C22_CancelRollsBack ==
    /\ [](JustCancelled =>
            /\ last.raised = CancelledError
            /\ last.returned = NoValue
            /\ "commit" \notin ToSet(L.ops)
            /\ \A k \in L.writes : committed[k] = 0
            /\ session.view = L.pre
            /\ Len(session.savepoints) = L.sp
            /\ session.in_transaction = L.ambient
            /\ ~L.ambient => committed = L.pre)
    /\ [][(JustCancelled /\ Idle /\ committed' # committed) => committed' = L.pre]_vars

C22_Witness ==
    /\ JustCancelled /\ L.ambient /\ Idle
    /\ L.writes # {}
    /\ L.ops = <<"in_transaction", "begin_nested", "savepoint.__aexit__">>
    /\ Rows(session.view) # {}
    /\ Rows(committed) = {}

\* The flush of the session would put a second row under a unique key.
WouldDuplicate == ~FlushOK(session)

\* A step in which the running request leaves its top-level scope after
\* its operation returned.
Commits ==
    /\ ~Idle /\ Idle' /\ other' = other
    /\ Top.pc \in {"returned", "assigned"}

\* C21: under any interleaving of concurrent assignment calls no committed
\* store holds two rows with the same (permission_name, role_id) or the same
\* (user_id, role_id); a call whose writes would make such a pair fails at
\* its commit with a persistence error, which is raised to the caller, and
\* nothing of the call is committed or left in the session.
C21_UniquePairs ==
    /\ [](\A k \in PermKeys \cup UserRoleKeys : committed[k] <= 1)
    /\ [][(Commits /\ WouldDuplicate) =>
              /\ last'.raised = IntegrityError
              /\ last'.returned = NoValue
              /\ committed' = committed
              /\ session' = ClosedSession(committed)]_vars
    /\ [][(Commits /\ ~WouldDuplicate) =>
              /\ last'.raised = NoError
              /\ committed' = Flushed(session)]_vars

C21_Witness ==
    /\ Granted /\ last.raised = IntegrityError
    /\ RolePermissions(L.pre, L.input.role_id) = {"root"}
    /\ GrantNames = <<"user:manage">>
    /\ Committed(other.last)
    /\ other.last.frame.input.role_id = L.input.role_id
    /\ RolePermissions(committed, L.input.role_id) = {"user:manage"}
    /\ committed[<<"perm", "user:manage", L.input.role_id>>] = 1

\* The rows replaceRolePermissions(r, S) may change: the permission rows
\* of role r.
OwnRows(role_id) == {k \in PermKeys : k[3] = role_id}

\* C30: replaceRolePermissions(r, S) changes only permission rows of role
\* r: while it runs and when it has succeeded or failed, the permission rows
\* of every other role, the permission rows bound to a user, the user-role
\* rows and the role and user rows are those from before the call.
C30_OnlyOwnRows ==
    /\ (~Idle /\ Top.fn = "grant_role_permissions") =>
          \A k \in Keys \ OwnRows(Top.input.role_id) :
              /\ Flushed(session)[k] = Top.pre[k]
              /\ session.new[k] = 0
              /\ k \notin session.deleted
    /\ Granted =>
          \A k \in Keys \ OwnRows(L.input.role_id) :
              /\ Applied[k] = L.pre[k]
              /\ ~L.ambient => committed[k] = L.pre[k]

C30_Witness ==
    /\ Granted /\ last.raised = NoError /\ ~L.ambient
    /\ L.input.role_id = 1
    /\ RolePermissions(L.pre, 1) = {"root"}
    /\ RolePermissions(committed, 1) = {"user:manage"}
    /\ RolePermissions(committed, 2) = {"root", "user:manage"}
    /\ UserPermKeys \cup UserRoleKeys \subseteq Rows(committed)

\* The names of a replaceRolePermissions input that the role already held.
Overlap == ToSet(GrantNames) \cap RolePermissions(L.pre, L.input.role_id)

\* C29: replaceRolePermissions accepts a valid input that overlaps the
\* role's stored names: the call succeeds without a uniqueness violation and
\* leaves exactly the distinct names of the input, so that a second call
\* with the same input leaves what the first one left.
C29_OverlapAccepted ==
    (Granted /\ RoleExisted /\ Unknown(GrantNames) = {} /\ Overlap # {}) =>
        /\ last.raised = NoError
        /\ RolePermissions(Applied, L.input.role_id) = ToSet(GrantNames)

\* C25: inside one replaceRolePermissions call every delete of a stored row
\* of the role reaches the store before any insert of the call: as long as
\* a delete of the call is pending, no row of the call has been inserted.
C25_DeletesBeforeInserts ==
    (~Idle /\ Top.fn = "grant_role_permissions" /\ session.deleted # {}) =>
        \A k \in OwnRows(Top.input.role_id) : session.view[k] <= Top.pre[k]

\* C26: the manager calls the wrapped operation once per invocation with a
\* valid session, with the caller's arguments as they are, and never again
\* after it is over, whether it returned, raised or failed at the commit
\* with a persistence error; without a valid session it never calls it.
C26_CalledOnce ==
    /\ [](\A i \in 1..Len(stack) : stack[i].calls = 1)
    /\ []((L.db_session = "AsyncSession") => L.calls = 1)
    /\ []((L.db_session \in NoSession) => (L.calls = 0 /\ L.pc = "none"))
    /\ []((Granted /\ L.pc = "returned") =>
             /\ L.result.role_id = L.input.role_id
             /\ L.result.permission_names = or_empty(L.input.perms_in))
    /\ [][(~Idle /\ Top.pc # "running") =>
              /\ stack' = <<>>
              /\ last'.frame.calls = 1
              /\ last'.frame.input = Top.input]_vars
    /\ [][(Idle /\ last'.frame.db_session \in NoSession) => stack' = <<>>]_vars

C26_Witness ==
    /\ Granted /\ L.pc = "returned" /\ L.calls = 1
    /\ last.raised = IntegrityError
    /\ L.ops = <<"in_transaction", "begin", "commit", "rollback">>
    /\ Idle /\ ~session.in_transaction

\* C27: every invocation leaves the session's transaction nesting as it
\* found it, on success and on failure: a top-level invocation leaves no
\* transaction, a nested one leaves the parent transaction with the
\* savepoints it had and none of its own.
C27_NestingRestored ==
    /\ [][(~Idle /\ Len(stack') < Len(stack)) =>
              /\ session'.in_transaction = Top.ambient
              /\ Len(session'.savepoints) = Top.sp
              /\ session'.savepoints = SubSeq(session.savepoints, 1, Top.sp)]_vars
    /\ [][(last'.frame.db_session \in NoSession) =>
              /\ session'.in_transaction = session.in_transaction
              /\ session'.savepoints = session.savepoints]_vars
    /\ []((L.path = "top") => (~session.in_transaction /\ session.savepoints = <<>>))

C27_Witness ==
    /\ L.path = "nested" /\ L.pc = "raised" /\ L.sp > 0
    /\ Len(stack) = 1 /\ Top.ambient
    /\ session.in_transaction
    /\ Len(session.savepoints) = L.sp

\* C28: when wrapped operations call wrapped operations on one session,
\* only the outermost invocation opens a transaction and only its exit
\* commits: the inner ones run in savepoints, the committed store does not
\* change before the outermost scope exits, the writes of an inner
\* invocation that returned become writes of its caller, and when the
\* outermost operation fails none of them is committed.
C28_OutermostCommits ==
    /\ [](\A i \in 1..Len(stack) :
              /\ stack[i].path = "top" => i = 1
              /\ i > 1 => stack[i].path = "nested")
    /\ [][(~Idle /\ committed' # committed) =>
              /\ Len(stack) = 1 /\ Idle'
              /\ Top.path = "top" /\ Top.pc = "returned"]_vars
    /\ [][(Len(stack) > 1 /\ Len(stack') < Len(stack) /\ last'.raised = NoError) =>
              Top.writes \subseteq stack'[Len(stack')].writes]_vars
    /\ [][(Len(stack) = 1 /\ Idle' /\ Top.path = "top" /\ Top.pc # "returned") =>
              /\ committed' = Top.pre
              /\ \A k \in Top.writes : committed'[k] = 0
              /\ session'.view = committed']_vars

C28_Witness ==
    /\ L.path = "nested" /\ L.pc = "returned" /\ L.writes # {}
    /\ Len(stack) = 1 /\ Top.path = "top"
    /\ L.writes \subseteq Top.writes
    /\ L.writes \subseteq Rows(session.view)
    /\ Rows(committed) = {}

====
